---- MODULE Spec2Model ----
(***************************************************************************)
(* jdhcp: the DHCP wire codec (message.go, options) and the Server of      *)
(* server.go: Start, Stop, Listening, RegisterCallback, the receive loop   *)
(* and handleMsg, as a state machine over goroutines.                      *)
(***************************************************************************)
EXTENDS Integers, Sequences, FiniteSets, TLC

(***************************************************************************)
(* Bytes and byte strings                                                  *)
(***************************************************************************)
Min(a, b) == IF a < b THEN a ELSE b

\* n zero bytes: make([]byte, n)
Zeros(n) == [i \in 1..n |-> 0]

\* a copy that would allocate nothing beyond the bytes it is given
NoPad(s, n) == SubSeq(s, 1, Min(Len(s), n))

\* copy(make([]byte, n), s): s cut or zero-extended to exactly n bytes
PadTo(s, n) == SubSeq(s, 1, Min(Len(s), n)) \o Zeros(n - Min(Len(s), n))

\* Go's s[lo:hi] on a 0-based slice
Slice(s, lo, hi) == SubSeq(s, lo + 1, hi)

\* a ParseMsg that would keep the padding of a string field
NoTrim(s) == s

\* bytes.TrimRight(s, "\000")
TrimRight(s) ==
    LET keep == {i \in 1..Len(s) : s[i] # 0}
    IN  IF keep = {} THEN <<>>
        ELSE SubSeq(s, 1, CHOOSE i \in keep : \A j \in keep : j <= i)

\* binary.BigEndian.Uint16 / Uint32 and binary.Write of a uint16 / uint32.
\* A uint32 is held as the 32-bit two's complement integer with the same
\* bits, so that values from 2^31 up stay within the checker's integers;
\* the code compares and copies these values and does no arithmetic on them.
Uint16(b) == b[1] * 256 + b[2]
\* a Uint32 that would read the bytes in little-endian order
Uint32LittleEndian(b) ==
    (((IF b[4] < 128 THEN b[4] ELSE b[4] - 256) * 256 + b[3]) * 256 + b[2]) * 256
    + b[1]
Uint32(b) ==
    (((IF b[1] < 128 THEN b[1] ELSE b[1] - 256) * 256 + b[2]) * 256 + b[3]) * 256
    + b[4]
PutUint16(x) == << (x \div 256) % 256, x % 256 >>
PutUint32(x) ==
    << (x \div 16777216) % 256, (x \div 65536) % 256, (x \div 256) % 256, x % 256 >>

(***************************************************************************)
(* Protocol constants                                                      *)
(***************************************************************************)
Cookie == 1669485411
OptionPad == 0
OptionEnd == 255
OptionDHCPMessageType == 53
HeaderLen == 236
OptionsOffset == 240
MinMsgLen == 272
SupportedHlen == 6

(***************************************************************************)
(* Options: a map from option code to raw value                            *)
(***************************************************************************)
EmptyOptions == [c \in {} |-> <<>>]

\* an assignment that would keep the value a code already has
OptionsPutIfAbsent(opts, code, v) ==
    [c \in (DOMAIN opts) \cup {code} |->
        IF c \in DOMAIN opts THEN opts[c] ELSE v]

\* opts[code] = v
OptionsPut(opts, code, v) ==
    [c \in (DOMAIN opts) \cup {code} |-> IF c = code THEN v ELSE opts[c]]

\* a read that would report running out of bytes as an error of its own
ReadByteErrUnexpected(data, i) == IF i > Len(data) THEN "unexpected EOF" ELSE ""

\* the error of buf.ReadByte() at 1-based position i: io.EOF when no byte is
\* left, and bytes.Buffer has no other
ReadByteErr(data, i) == IF i > Len(data) THEN "EOF" ELSE ""

\* a Next that would return one byte less than asked for
BufNextOneShort(data, i, n) == SubSeq(data, i, Min(i + n - 2, Len(data)))

\* buf.Next(n) at position i: the next n bytes, or those that are left
BufNext(data, i, n) == SubSeq(data, i, Min(i + n - 1, Len(data)))

\* the loop of ParseOptions from 1-based position i, with opts found so far:
\* the options and the error it returns
RECURSIVE ScanOptions(_, _, _)
ScanOptions(data, i, opts) ==
    IF ReadByteErr(data, i) # ""
    THEN [opts |-> opts,
          err |-> IF ReadByteErr(data, i) = "EOF" THEN "" ELSE ReadByteErr(data, i)]
    ELSE IF data[i] = OptionEnd THEN [opts |-> opts, err |-> ""]
    ELSE IF data[i] = OptionPad THEN ScanOptions(data, i + 1, opts)
    ELSE IF ReadByteErr(data, i + 1) # ""
    THEN [opts |-> opts,
          err |-> IF ReadByteErr(data, i + 1) = "EOF" THEN ""
                  ELSE ReadByteErr(data, i + 1)]
    ELSE LET v == BufNext(data, i + 2, data[i + 1])
         IN  ScanOptions(data, i + 2 + Len(v), OptionsPut(opts, data[i], v))

ParseOptions(data) == ScanOptions(data, 1, EmptyOptions)

\* the codes of a set in ascending order: sort.Slice over the keys
RECURSIVE SortedKeys(_)
SortedKeys(ks) ==
    IF ks = {} THEN <<>>
    ELSE LET k == CHOOSE x \in ks : \A y \in ks : x <= y
         IN  <<k>> \o SortedKeys(ks \ {k})

RECURSIVE WriteTLVs(_, _)
WriteTLVs(opts, ks) ==
    IF ks = <<>> THEN <<>>
    ELSE LET k == Head(ks)
         IN  <<k, Len(opts[k]) % 256>> \o opts[k] \o WriteTLVs(opts, Tail(ks))

OptionsMarshalBytes(opts) ==
    WriteTLVs(opts, SortedKeys(DOMAIN opts)) \o <<OptionEnd>>

\* a MarshalBytes that would not sort the keys
Unsorted(ks) == ks

\* sort.Slice(ks, func(i, j int) bool { return ks[i] < ks[j] }) on the keys
\* in the order range yielded them
RECURSIVE SortSlice(_)
SortSlice(ks) ==
    IF ks = <<>> THEN <<>>
    ELSE LET rest == SortSlice(Tail(ks))
             below == SelectSeq(rest, LAMBDA k : k < Head(ks))
             above == SelectSeq(rest, LAMBDA k : ~(k < Head(ks)))
         IN  below \o <<Head(ks)>> \o above

\* Options.MarshalBytes when range yields the keys in the order ks
OptionsMarshalBytesFrom(opts, ks) == WriteTLVs(opts, SortSlice(ks)) \o <<OptionEnd>>

\* Options.Insert(oc, v) for a []byte v: binary.Write copies the bytes
OptionsInsert(opts, oc, v) == OptionsPut(opts, oc, v)

(***************************************************************************)
(* Msg, ParseMsg and Msg.MarshalBytes                                      *)
(***************************************************************************)
\* net.IPv4(a, b, c, d): the 16-byte IPv4-in-IPv6 form
IPv4(a, b, c, d) == Zeros(10) \o <<255, 255, a, b, c, d>>

\* net.IP.To4: the 4-byte form, or nil when ip is no IPv4 address
To4(ip) ==
    IF Len(ip) = 4 THEN ip
    ELSE IF Len(ip) = 16 /\ SubSeq(ip, 1, 12) = Zeros(10) \o <<255, 255>>
         THEN SubSeq(ip, 13, 16)
    ELSE <<>>

NewMsg ==
    [Op |-> 0, Htype |-> 0, Hlen |-> 0, Hops |-> 0, Xid |-> 0, Secs |-> 0,
     Flags |-> 0, Ciaddr |-> IPv4(0, 0, 0, 0), Yiaddr |-> IPv4(0, 0, 0, 0),
     Siaddr |-> IPv4(0, 0, 0, 0), Giaddr |-> IPv4(0, 0, 0, 0),
     Chaddr |-> Zeros(6), Sname |-> <<>>, File |-> <<>>,
     Options |-> EmptyOptions]

\* The result of ParseMsg: msg is <<m>> or <<>> (nil); err is "" (nil), an
\* error, or "fault" when the call panics (a slice bound out of range).
ParseMsg(data) ==
    IF Len(data) < HeaderLen THEN [msg |-> <<>>, err |-> "short read"]
    ELSE IF data[3] # SupportedHlen THEN [msg |-> <<>>, err |-> "unsupported hlen"]
    ELSE IF Len(data) < OptionsOffset THEN [msg |-> <<>>, err |-> "fault"]
    ELSE IF Uint32(Slice(data, 236, 240)) # Cookie
         THEN [msg |-> <<>>, err |-> "incorrect cookie"]
    ELSE LET o == ParseOptions(Slice(data, 240, Len(data)))
             m == [Op |-> data[1], Htype |-> data[2], Hlen |-> data[3],
                   Hops |-> data[4],
                   Xid |-> Uint32(Slice(data, 4, 8)),
                   Secs |-> Uint16(Slice(data, 8, 10)),
                   Flags |-> Uint16(Slice(data, 10, 12)),
                   Ciaddr |-> Slice(data, 12, 16),
                   Yiaddr |-> Slice(data, 16, 20),
                   Siaddr |-> Slice(data, 20, 24),
                   Giaddr |-> Slice(data, 24, 28),
                   Chaddr |-> Slice(data, 28, 34),
                   Sname |-> TrimRight(Slice(data, 44, 108)),
                   File |-> TrimRight(Slice(data, 108, 236)),
                   Options |-> o.opts]
         IN  IF o.err # "" THEN [msg |-> <<>>, err |-> "parse options"]
             ELSE [msg |-> <<m>>, err |-> ""]

\* the bytes Msg.MarshalBytes has written to its buffer b before it pads
MsgBuffer(m) ==
    <<m.Op, m.Htype, m.Hlen, m.Hops>>
    \o PutUint32(m.Xid) \o PutUint16(m.Secs) \o PutUint16(m.Flags)
    \o To4(m.Ciaddr) \o To4(m.Yiaddr) \o To4(m.Siaddr) \o To4(m.Giaddr)
    \o PadTo(m.Chaddr, 16) \o PadTo(m.Sname, 64) \o PadTo(m.File, 128)
    \o PutUint32(Cookie) \o OptionsMarshalBytes(m.Options)

MsgMarshalBytes(m) ==
    LET b == MsgBuffer(m)
    IN  IF Len(b) < MinMsgLen THEN PadTo(b, MinMsgLen) ELSE b

\* net.IP.Equal: the 4-byte and the 16-byte form of an address are equal
IPEqual(a, b) == IF To4(a) # <<>> /\ To4(b) # <<>> THEN To4(a) = To4(b) ELSE a = b

\* field-for-field equality of two messages, as cmp.Diff reports it
MsgEqual(a, b) ==
    /\ a.Op = b.Op /\ a.Htype = b.Htype /\ a.Hlen = b.Hlen /\ a.Hops = b.Hops
    /\ a.Xid = b.Xid /\ a.Secs = b.Secs /\ a.Flags = b.Flags
    /\ IPEqual(a.Ciaddr, b.Ciaddr) /\ IPEqual(a.Yiaddr, b.Yiaddr)
    /\ IPEqual(a.Siaddr, b.Siaddr) /\ IPEqual(a.Giaddr, b.Giaddr)
    /\ a.Chaddr = b.Chaddr /\ a.Sname = b.Sname /\ a.File = b.File
    /\ DOMAIN a.Options = DOMAIN b.Options
    /\ \A c \in DOMAIN a.Options : a.Options[c] = b.Options[c]

(***************************************************************************)
(* Inputs: the datagrams clients send, their addresses, the callbacks      *)
(***************************************************************************)
MaxStarts == 1
MaxStops == 1
MaxDatagrams == 2
MaxCalls == 2
MaxRegs == 2
MaxRestarts == 2

\* the request of TestServerE2E, and the same request carrying option 53
TestMsg ==
    [NewMsg EXCEPT !.Op = 1, !.Htype = 1, !.Hlen = 6, !.Xid = 305419896,
                   !.Chaddr = <<0, 17, 34, 51, 68, 85>>]
DiscoverMsg ==
    [TestMsg EXCEPT !.Xid = 7,
                    !.Options = OptionsPut(EmptyOptions, OptionDHCPMessageType, <<1>>)]

\* Datagrams 1 and 2 are encoded messages; 3 and 4 are datagram 1 cut to 235
\* bytes (below the fixed header) and to 236 bytes (header only, no cookie).
DatagramIds == 1..4
Encoded == {1, 2}
SentMsg(dg) == IF dg = 1 THEN TestMsg ELSE DiscoverMsg
DatagramBytes ==
    [dg \in DatagramIds |->
        CASE dg = 1 -> MsgMarshalBytes(TestMsg)
          [] dg = 2 -> MsgMarshalBytes(DiscoverMsg)
          [] dg = 3 -> SubSeq(MsgMarshalBytes(TestMsg), 1, HeaderLen - 1)
          [] OTHER -> SubSeq(MsgMarshalBytes(TestMsg), 1, HeaderLen)]
Bytes(dg) == IF dg \in DatagramIds THEN DatagramBytes[dg] ELSE <<>>

\* the address each datagram is sent from
Sender(dg) == IF dg = 2 THEN "client2" ELSE "client1"

\* A MsgCallback is user code. The callbacks registered here: one answering
\* nil, one answering a reply, one returning a reply together with an error,
\* and one that calls RegisterCallback before answering nil.
Handlers == {"hNil", "hResp", "hBoth", "hReg"}
Reply(req) == [req EXCEPT !.Op = 2]
CbResult(h, req) ==
    [res |-> IF h \in {"hResp", "hBoth"} THEN <<Reply(req)>> ELSE <<>>,
     err |-> IF h = "hBoth" THEN "callback failed" ELSE ""]

(***************************************************************************)
(* Server state                                                            *)
(***************************************************************************)
VARIABLES
    socket,      \* l.socket: 0 is nil, k > 0 the k-th socket ListenPacket opened
    nsock,       \* sockets opened so far
    closedSocks, \* sockets on which Close has been called
    inbox,       \* per socket, the datagrams received and not yet read
    listening,   \* l.listening
    cancelled,   \* l.ctx is done
    msgCb,       \* l.msgCb: "nil" or a callback
    rwW,         \* l.cbMutex: the registration that has called Lock, or 0
    rwLocked,    \* l.cbMutex: that registration holds the write lock
    rwReaders,   \* l.cbMutex: the handleMsg calls holding the read lock
    loop,        \* the goroutine running l.loop()
    hm,          \* the calls of handleMsg: 0 is the loop's, 1.. are direct
    reg,         \* the calls of RegisterCallback
    api,         \* what Start and Stop have returned so far
    nsent,       \* datagrams sent to the server so far
    crash,       \* "" or the reason the process panicked
    encMsg,      \* codec: the Msg a caller encodes
    wire,        \* codec: the buffer a caller holds, encoded or received
    decoded,     \* codec: what ParseMsg returned for wire, once called
    optSet,      \* codec: the Options a caller builds with Insert
    rangeOrder,  \* codec: the order in which range yields the keys of optSet
    optData,     \* codec: the option bytes a caller holds
    optDecoded,  \* codec: what ParseOptions returned for optData, once called
    accessed     \* codec: what a typed accessor returned for optSet, once called

serverVars == <<socket, nsock, closedSocks, inbox, listening, cancelled, msgCb,
                rwW, rwLocked, rwReaders, loop, hm, reg, api, nsent, crash>>
codecVars == <<encMsg, wire, decoded, optSet, rangeOrder, optData, optDecoded,
               accessed>>
vars == <<serverVars, codecVars>>

SockIds == 1..MaxStarts
Dispatches == 0..MaxCalls
\* registrations 1..MaxRegs are called from outside; MaxRegs + 1 + d is the
\* one the callback running in handleMsg call d makes
NestedReg(d) == MaxRegs + 1 + d
Regs == 1..(MaxRegs + 1 + MaxCalls)

IdleHm ==
    [pc |-> "idle", dg |-> 0, n |-> 0, from |-> "", cb |-> "nil", ncb |-> 0,
     seen |-> <<>>, res |-> <<>>, err |-> "", nwr |-> 0, wpay |-> <<>>,
     wto |-> "", ret |-> ""]
IdleReg == [pc |-> "idle", cb |-> "nil", waited |-> FALSE]

\* a call of ParseMsg or ParseOptions that has not been made
NotCalled == [called |-> FALSE]

\* no caller is using the codec
CodecIdle ==
    /\ encMsg = NewMsg /\ wire = <<>> /\ decoded = NotCalled
    /\ optSet = EmptyOptions /\ rangeOrder = <<>> /\ optData = <<>>
    /\ optDecoded = NotCalled /\ accessed = NotCalled

\* NewServer, on a host where the sockets socks can be opened
ServerInit(socks) ==
    /\ socket = 0 /\ nsock = 0 /\ closedSocks = {}
    /\ inbox = [s \in socks |-> <<>>]
    /\ listening = FALSE /\ cancelled = FALSE
    /\ msgCb = "nil"
    /\ rwW = 0 /\ rwLocked = FALSE /\ rwReaders = {}
    /\ loop = [pc |-> "none", sock |-> 0]
    /\ hm = [d \in Dispatches |-> IdleHm]
    /\ reg = [r \in Regs |-> IdleReg]
    /\ api = [nstart |-> 0, started |-> FALSE, nstop |-> 0, stopErr |-> "",
              stopped |-> FALSE]
    /\ nsent = 0
    /\ crash = ""

Init == ServerInit(SockIds) /\ CodecIdle

\* a process that would go on after a panic
RunningAfterPanic == TRUE

Running == crash = ""

(***************************************************************************)
(* Start, Stop, Listening                                                  *)
(***************************************************************************)
Listening == listening

\* What Start does to the server once ListenPacket has answered: ok is
\* whether the bind succeeded.
StartEffect(ok) ==
    IF Listening
    THEN /\ UNCHANGED <<socket, nsock, inbox, listening, loop>>
         /\ api' = [api EXCEPT !.nstart = @ + 1]
    ELSE IF ok
    THEN /\ nsock' = nsock + 1
         /\ socket' = nsock + 1
         /\ UNCHANGED <<inbox, listening, loop>>
         /\ api' = [api EXCEPT !.nstart = @ + 1, !.started = TRUE]
    ELSE /\ socket' = 0
         /\ UNCHANGED <<nsock, inbox, listening, loop>>
         /\ api' = [api EXCEPT !.nstart = @ + 1]

\* a call of Start, of at most limit calls
StartCall(limit) ==
    /\ Running
    /\ api.nstart < limit
    /\ \E ok \in BOOLEAN : StartEffect(ok)
    /\ UNCHANGED <<closedSocks, cancelled, msgCb, rwW, rwLocked, rwReaders,
                   hm, reg, nsent, crash>>
    /\ UNCHANGED codecVars

Start == StartCall(MaxStarts)

StopEffect ==
    IF ~Listening
    THEN /\ UNCHANGED <<cancelled, closedSocks, listening>>
         /\ api' = [api EXCEPT !.nstop = @ + 1, !.stopped = api.started]
    ELSE /\ cancelled' = TRUE
         /\ closedSocks' = closedSocks \cup {socket}
         /\ UNCHANGED listening
         /\ api' = [api EXCEPT !.nstop = @ + 1,
                               !.stopErr = IF socket \in closedSocks
                                           THEN "use of closed network connection"
                                           ELSE "",
                               !.stopped = api.started]

Stop ==
    /\ Running
    /\ api.nstop < MaxStops
    /\ StopEffect
    /\ UNCHANGED <<socket, nsock, inbox, msgCb, rwW, rwLocked, rwReaders,
                   loop, hm, reg, nsent, crash>>
    /\ UNCHANGED codecVars

\* a client sends datagram dg to a socket of the server, once the server is
\* receiving
Arrive ==
    /\ Running
    /\ loop.pc # "none"
    /\ nsent < MaxDatagrams
    /\ \E s \in 1..nsock, dg \in DatagramIds :
          /\ s \notin closedSocks
          /\ inbox' = [inbox EXCEPT ![s] = Append(@, [dg |-> dg, from |-> Sender(dg)])]
    /\ nsent' = nsent + 1
    /\ UNCHANGED <<socket, nsock, closedSocks, listening, cancelled, msgCb, rwW,
                   rwLocked, rwReaders, loop, hm, reg, api, crash>>
    /\ UNCHANGED codecVars

(***************************************************************************)
(* l.cbMutex, a sync.RWMutex                                               *)
(***************************************************************************)
\* RLock returns unless a writer holds the lock or has called Lock
CanRLock == rwW = 0
\* Lock first takes the writers' mutex ...
CanAnnounce == rwW = 0
\* a Lock that would return while readers still hold the lock
CanLockDespiteReaders == TRUE
\* ... and returns once the readers that held the lock have released it
CanLock == rwReaders = {}

(***************************************************************************)
(* RegisterCallback                                                        *)
(***************************************************************************)
\* a goroutine outside the server calls RegisterCallback(cb)
RegisterCallback ==
    /\ Running
    /\ \E r \in 1..MaxRegs, cb \in Handlers :
          /\ reg[r].pc = "idle"
          /\ \A q \in 1..(r - 1) : reg[q].pc # "idle"
          /\ reg' = [reg EXCEPT ![r] = [IdleReg EXCEPT !.pc = "called", !.cb = cb]]
    /\ UNCHANGED <<socket, nsock, closedSocks, inbox, listening, cancelled,
                   msgCb, rwW, rwLocked, rwReaders, loop, hm, api, nsent, crash>>
    /\ UNCHANGED codecVars

\* l.cbMutex.Lock(), first half: call r is now the pending writer; waited
\* records that readers held the lock at that moment
RegAnnounceAt(r) ==
    /\ Running
    /\ reg[r].pc = "called"
    /\ CanAnnounce
    /\ rwW' = r
    /\ reg' = [reg EXCEPT ![r].pc = "pending", ![r].waited = rwReaders # {}]
    /\ UNCHANGED <<socket, nsock, closedSocks, inbox, listening, cancelled,
                   msgCb, rwLocked, rwReaders, loop, hm, api, nsent, crash>>
    /\ UNCHANGED codecVars

RegAnnounce == \E r \in Regs : RegAnnounceAt(r)

\* l.cbMutex.Lock(), second half: Lock returns
RegLockAt(r) ==
    /\ Running
    /\ reg[r].pc = "pending"
    /\ CanLock
    /\ rwLocked' = TRUE
    /\ reg' = [reg EXCEPT ![r].pc = "locked"]
    /\ UNCHANGED <<socket, nsock, closedSocks, inbox, listening, cancelled,
                   msgCb, rwW, rwReaders, loop, hm, api, nsent, crash>>
    /\ UNCHANGED codecVars

RegLock == \E r \in Regs : RegLockAt(r)

\* a registration that would leave the handler as it was
NotInstalled(cb) == msgCb

\* l.msgCb = cb
Installed(cb) == cb

\* l.msgCb = cb; l.cbMutex.Unlock(); return
RegWriteAt(r) ==
    /\ Running
    /\ reg[r].pc = "locked"
    /\ msgCb' = Installed(reg[r].cb)
    /\ rwW' = IF rwW = r THEN 0 ELSE rwW
    /\ rwLocked' = FALSE
    /\ reg' = [reg EXCEPT ![r].pc = "done"]
    /\ UNCHANGED <<socket, nsock, closedSocks, inbox, listening, cancelled,
                   rwReaders, loop, hm, api, nsent, crash>>
    /\ UNCHANGED codecVars

RegWrite == \E r \in Regs : RegWriteAt(r)

(***************************************************************************)
(* handleMsg                                                               *)
(***************************************************************************)
\* the data handleMsg call d was given: the first n bytes of its datagram
Data(d) == SubSeq(Bytes(hm[d].dg), 1, hm[d].n)

\* a goroutine calls handleMsg(data, from) with a whole datagram, on a
\* server whose socket is bound and whose loop is not running
CallHandleMsg ==
    /\ Running
    /\ socket # 0
    /\ loop.pc = "none"
    /\ \E d \in 1..MaxCalls, dg \in DatagramIds :
          /\ hm[d].pc = "idle"
          /\ \A e \in 1..(d - 1) : hm[e].pc # "idle"
          /\ hm' = [hm EXCEPT ![d] = [IdleHm EXCEPT !.pc = "entry", !.dg = dg,
                                                    !.n = Len(Bytes(dg)),
                                                    !.from = Sender(dg)]]
    /\ UNCHANGED <<socket, nsock, closedSocks, inbox, listening, cancelled,
                   msgCb, rwW, rwLocked, rwReaders, loop, reg, api, nsent, crash>>
    /\ UNCHANGED codecVars

\* req, err := ParseMsg(data); if err != nil { return ... "parse message" }
HmParseEffect(d) ==
    LET r == ParseMsg(Data(d))
    IN  IF r.err = "fault"
        THEN /\ crash' = "slice bounds out of range"
             /\ UNCHANGED hm
        ELSE IF r.err # ""
        THEN /\ hm' = [hm EXCEPT ![d].pc = "ret", ![d].ret = "parse message"]
             /\ UNCHANGED crash
        ELSE /\ hm' = [hm EXCEPT ![d].pc = "rlock"]
             /\ UNCHANGED crash

HmParseAt(d) ==
    /\ Running
    /\ hm[d].pc = "entry"
    /\ HmParseEffect(d)
    /\ UNCHANGED <<socket, nsock, closedSocks, inbox, listening, cancelled,
                   msgCb, rwW, rwLocked, rwReaders, loop, reg, api, nsent>>
    /\ UNCHANGED codecVars

HmParse == \E d \in Dispatches : HmParseAt(d)

\* l.cbMutex.RLock(); res, err := l.msgCb(*req): the callback is entered
HmInvokeEffect(d) ==
    IF msgCb = "nil"
    THEN /\ crash' = "nil callback"
         /\ UNCHANGED <<hm, reg>>
    ELSE /\ hm' = [hm EXCEPT ![d].pc = "incb", ![d].cb = msgCb,
                             ![d].ncb = @ + 1,
                             ![d].seen = ParseMsg(Data(d)).msg]
         /\ reg' = IF msgCb = "hReg"
                   THEN [reg EXCEPT ![NestedReg(d)] =
                                       [IdleReg EXCEPT !.pc = "called",
                                                       !.cb = "hNil"]]
                   ELSE reg
         /\ UNCHANGED crash

HmInvokeAt(d) ==
    /\ Running
    /\ hm[d].pc = "rlock"
    /\ CanRLock
    /\ rwReaders' = rwReaders \cup {d}
    /\ HmInvokeEffect(d)
    /\ UNCHANGED <<socket, nsock, closedSocks, inbox, listening, cancelled,
                   msgCb, rwW, rwLocked, loop, api, nsent>>
    /\ UNCHANGED codecVars

HmInvoke == \E d \in Dispatches : HmInvokeAt(d)

\* the callback returns; l.cbMutex.RUnlock()
HmCbReturnAt(d) ==
    /\ Running
    /\ hm[d].pc = "incb"
    /\ hm[d].cb = "hReg" => reg[NestedReg(d)].pc = "done"
    /\ LET r == CbResult(hm[d].cb, hm[d].seen[1])
       IN  hm' = [hm EXCEPT ![d].pc = "post", ![d].res = r.res, ![d].err = r.err]
    /\ rwReaders' = rwReaders \ {d}
    /\ UNCHANGED <<socket, nsock, closedSocks, inbox, listening, cancelled,
                   msgCb, rwW, rwLocked, loop, reg, api, nsent, crash>>
    /\ UNCHANGED codecVars

HmCbReturn == \E d \in Dispatches : HmCbReturnAt(d)

\* a handleMsg that would not look at the callback's error
RespondsDespiteError(res, err) == res # <<>>

\* whether handleMsg goes on to l.socket.WriteTo after the callback
Responds(res, err) == err = "" /\ res # <<>>

\* the rest of handleMsg: the error check, and the response if there is one.
\* ok is whether the operating system accepts the datagram.
HmRespondEffect(d, ok) ==
    IF ~Responds(hm[d].res, hm[d].err)
    THEN /\ hm' = [hm EXCEPT ![d].pc = "ret",
                             ![d].ret = IF hm[d].err # "" THEN "execute callback"
                                        ELSE ""]
         /\ UNCHANGED crash
    ELSE IF socket = 0
    THEN /\ crash' = "nil socket"
         /\ UNCHANGED hm
    ELSE /\ hm' = [hm EXCEPT ![d].pc = "ret", ![d].nwr = @ + 1,
                             ![d].wpay = MsgMarshalBytes(hm[d].res[1]),
                             ![d].wto = hm[d].from,
                             ![d].ret = IF ok /\ socket \notin closedSocks
                                        THEN "" ELSE "write response"]
         /\ UNCHANGED crash

HmRespondAt(d) ==
    /\ Running
    /\ hm[d].pc = "post"
    /\ \E ok \in BOOLEAN : HmRespondEffect(d, ok)
    /\ UNCHANGED <<socket, nsock, closedSocks, inbox, listening, cancelled,
                   msgCb, rwW, rwLocked, rwReaders, loop, reg, api, nsent>>
    /\ UNCHANGED codecVars

HmRespond == \E d \in Dispatches : HmRespondAt(d)

(***************************************************************************)
(* loop                                                                    *)
(***************************************************************************)
\* len(buf) for buf := make([]byte, 0, 4096)
BufLen == 0

\* a goroutine runs l.loop() on a server whose socket is bound and whose
\* handleMsg nothing else has called
GoLoop ==
    /\ Running
    /\ socket # 0
    /\ \A d \in 1..MaxCalls : hm[d].pc = "idle"
    /\ loop.pc = "none"
    /\ loop' = [loop EXCEPT !.pc = "select"]
    /\ UNCHANGED <<socket, nsock, closedSocks, inbox, listening, cancelled,
                   msgCb, rwW, rwLocked, rwReaders, hm, reg, api, nsent, crash>>
    /\ UNCHANGED codecVars

\* select: return when l.ctx is done, else set the deadline and start to read
LoopSelect ==
    /\ Running
    /\ loop.pc = "select"
    /\ IF cancelled
       THEN loop' = [loop EXCEPT !.pc = "exited"] /\ UNCHANGED crash
       ELSE IF socket = 0
       THEN crash' = "nil socket" /\ UNCHANGED loop
       ELSE loop' = [pc |-> "read", sock |-> socket] /\ UNCHANGED crash
    /\ UNCHANGED <<socket, nsock, closedSocks, inbox, listening, cancelled,
                   msgCb, rwW, rwLocked, rwReaders, hm, reg, api, nsent>>
    /\ UNCHANGED codecVars

\* ReadFrom(buf) returns a datagram: n bytes of it fit in buf, and
\* handleMsg(buf[:n], addr) is called
LoopRecv ==
    /\ Running
    /\ loop.pc = "read"
    /\ loop.sock \notin closedSocks
    /\ inbox[loop.sock] # <<>>
    /\ LET p == Head(inbox[loop.sock])
       IN  hm' = [hm EXCEPT ![0] = [IdleHm EXCEPT !.pc = "entry", !.dg = p.dg,
                                                  !.n = Min(BufLen, Len(Bytes(p.dg))),
                                                  !.from = p.from]]
    /\ inbox' = [inbox EXCEPT ![loop.sock] = Tail(@)]
    /\ loop' = [loop EXCEPT !.pc = "handle"]
    /\ UNCHANGED <<socket, nsock, closedSocks, listening, cancelled, msgCb, rwW,
                   rwLocked, rwReaders, reg, api, nsent, crash>>
    /\ UNCHANGED codecVars

\* ReadFrom fails: a timeout goes round the loop, anything else panics
LoopReadErr ==
    /\ Running
    /\ loop.pc = "read"
    /\ IF loop.sock \in closedSocks
       THEN crash' = "can't read" /\ UNCHANGED loop
       ELSE /\ inbox[loop.sock] = <<>>
            /\ loop' = [loop EXCEPT !.pc = "select"]
            /\ UNCHANGED crash
    /\ UNCHANGED <<socket, nsock, closedSocks, inbox, listening, cancelled,
                   msgCb, rwW, rwLocked, rwReaders, hm, reg, api, nsent>>
    /\ UNCHANGED codecVars

\* handleMsg has returned to the loop, which goes round
LoopHandled ==
    /\ Running
    /\ loop.pc = "handle"
    /\ hm[0].pc = "ret"
    /\ hm' = [hm EXCEPT ![0] = IdleHm]
    /\ loop' = [loop EXCEPT !.pc = "select"]
    /\ UNCHANGED <<socket, nsock, closedSocks, inbox, listening, cancelled,
                   msgCb, rwW, rwLocked, rwReaders, reg, api, nsent, crash>>
    /\ UNCHANGED codecVars

Next ==
    \/ Start \/ Stop \/ Arrive
    \/ RegisterCallback \/ RegAnnounce \/ RegLock \/ RegWrite
    \/ CallHandleMsg \/ HmParse \/ HmInvoke \/ HmCbReturn \/ HmRespond
    \/ GoLoop \/ LoopSelect \/ LoopRecv \/ LoopReadErr \/ LoopHandled

Spec == Init /\ [][Next]_vars

\* a step of a goroutine inside RegisterCallback, and one of a goroutine
\* inside handleMsg, the return of its callback included
RegisterStep == \E r \in Regs : RegAnnounceAt(r) \/ RegLockAt(r) \/ RegWriteAt(r)
HandleStep ==
    \E d \in Dispatches :
        HmParseAt(d) \/ HmInvokeAt(d) \/ HmCbReturnAt(d) \/ HmRespondAt(d)

\* The Go scheduler keeps running the goroutines that can take a step, and
\* the callbacks registered here return once the calls they make have
\* returned. The calls of RegisterCallback and handleMsg are finitely many
\* and each takes finitely many steps, so weak fairness of their union lets
\* every one of them run for as long as it can.
Fairness == WF_vars(RegisterStep \/ HandleStep)

FairSpec == Spec /\ Fairness
(***************************************************************************)
(* The message codec alone: a caller encodes a Msg, the buffer may reach   *)
(* the decoder cut short or altered, and ParseMsg is called on it          *)
(***************************************************************************)
\* n bytes b
Repeat(b, n) == [i \in 1..n |-> b]

\* The messages a caller encodes. They differ from the request of
\* TestServerE2E in hlen, in one address (the 16-byte and the 4-byte form of
\* an IPv4 address, nil as in Msg{}, and an IPv6 address), in the hardware
\* address (6 bytes, and longer than its field), in the strings (empty,
\* short, ending in NUL, longer than their field) and in the options.
HlenValues == {5, 6, 7}
AddrValues ==
    {IPv4(10, 0, 0, 1), <<10, 0, 0, 1>>, <<>>, <<32, 1>> \o Zeros(13) \o <<1>>}
ChaddrValues == {<<0, 17, 34, 51, 68, 85>>, Repeat(170, 17)}
SnameValues == {<<>>, <<97>>, <<97, 0>>, Repeat(97, 65)}
FileValues == {<<98>>, Repeat(98, 129)}
OptionsValues ==
    {EmptyOptions,
     OptionsPut(EmptyOptions, OptionDHCPMessageType, <<1>>),
     OptionsPut(OptionsPut(EmptyOptions, OptionDHCPMessageType, <<1>>),
                50, <<10, 0, 0, 1>>),
     OptionsPut(EmptyOptions, 61, Repeat(7, 40)),
     OptionsPut(EmptyOptions, OptionPad, <<1>>),
     OptionsPut(OptionsPut(EmptyOptions, OptionEnd, <<1>>), 50, <<10, 0, 0, 1>>)}
Msgs ==
    {[TestMsg EXCEPT !.Hlen = h, !.Ciaddr = a, !.Chaddr = c, !.Sname = sn,
                     !.File = f, !.Options = o] :
        h \in HlenValues, a \in AddrValues, c \in ChaddrValues,
        sn \in SnameValues, f \in FileValues, o \in OptionsValues}

\* the lengths a buffer is cut to: either side of the fixed header and of
\* the cookie
CutLens == {HeaderLen - 1, HeaderLen, OptionsOffset - 1, OptionsOffset}

CodecInit ==
    /\ ServerInit(SockIds)
    /\ encMsg \in Msgs
    /\ wire = <<>> /\ decoded = NotCalled
    /\ optSet = EmptyOptions /\ rangeOrder = <<>> /\ optData = <<>>
    /\ optDecoded = NotCalled /\ accessed = NotCalled

\* wire := encMsg.MarshalBytes()
Encode ==
    /\ wire = <<>>
    /\ ~decoded.called
    /\ wire' = MsgMarshalBytes(encMsg)
    /\ UNCHANGED <<serverVars, encMsg, decoded, optSet, rangeOrder, optData,
                   optDecoded, accessed>>

\* the buffer is received cut to n bytes
Truncate ==
    /\ ~decoded.called
    /\ \E n \in CutLens :
          /\ n < Len(wire)
          /\ wire' = SubSeq(wire, 1, n)
    /\ UNCHANGED <<serverVars, encMsg, decoded, optSet, rangeOrder, optData,
                   optDecoded, accessed>>

\* the buffer is received with the last byte of the cookie cleared
Corrupt ==
    /\ ~decoded.called
    /\ Len(wire) >= OptionsOffset
    /\ wire[OptionsOffset] # 0
    /\ wire' = [wire EXCEPT ![OptionsOffset] = 0]
    /\ UNCHANGED <<serverVars, encMsg, decoded, optSet, rangeOrder, optData,
                   optDecoded, accessed>>

\* decoded := ParseMsg(wire)
Decode ==
    /\ ~decoded.called
    /\ LET r == ParseMsg(wire)
       IN  decoded' = [called |-> TRUE, msg |-> r.msg, err |-> r.err]
    /\ UNCHANGED <<serverVars, encMsg, wire, optSet, rangeOrder, optData,
                   optDecoded, accessed>>

CodecNext == Encode \/ Truncate \/ Corrupt \/ Decode

CodecSpec == CodecInit /\ [][CodecNext]_vars

(***************************************************************************)
(* The life cycle alone: Start called more than once, Stop, and the loop   *)
(***************************************************************************)
Restart == StartCall(MaxRestarts)

LifecycleInit == ServerInit(1..MaxRestarts) /\ CodecIdle

LifecycleNext ==
    \/ Restart \/ Stop \/ Arrive
    \/ GoLoop \/ LoopSelect \/ LoopRecv \/ LoopReadErr \/ LoopHandled \/ HmParse

LifecycleSpec == LifecycleInit /\ [][LifecycleNext]_vars

(***************************************************************************)
(* The options codec alone: option sets built by Insert and encoded by     *)
(* MarshalBytes, and byte buffers decoded by ParseOptions                  *)
(***************************************************************************)
\* the most codes an option set built here holds
MaxOptions == 3
\* the longest buffer handed to ParseOptions that no encoding produced
MaxOptLen == 8

\* The codes inserted: the message type and the requested address of the
\* tests, and the two codes ParseOptions reads as pad and end.
OptCodes == {OptionPad, 50, OptionDHCPMessageType, OptionEnd}
\* The values inserted: empty, the one byte of the tests, one that holds the
\* end marker's byte, and one whose length does not fit the length byte.
OptVals == {<<>>, <<1>>, <<2, OptionEnd>>, Repeat(200, 256)}
\* The bytes of the buffers: pad, a byte read as code, length or value, the
\* message type code, and end.
OptBytes == {OptionPad, 1, OptionDHCPMessageType, OptionEnd}
Buffers == UNION {[1..n -> OptBytes] : n \in 0..MaxOptLen}

\* the orders in which range can yield the keys of opts
RangeOrders(opts) ==
    {ks \in [1..Cardinality(DOMAIN opts) -> DOMAIN opts] :
        \A c \in DOMAIN opts : \E i \in DOMAIN ks : ks[i] = c}

OptionsInit ==
    /\ ServerInit(SockIds)
    /\ encMsg = NewMsg /\ wire = <<>> /\ decoded = NotCalled
    /\ optSet = EmptyOptions /\ rangeOrder = <<>>
    /\ optData \in Buffers
    /\ optDecoded = NotCalled /\ accessed = NotCalled

\* o.Insert(oc, v) on a set that has not been encoded
Insert ==
    /\ optData = <<>> /\ rangeOrder = <<>> /\ ~optDecoded.called
    /\ \E oc \in OptCodes, v \in OptVals :
          /\ Cardinality((DOMAIN optSet) \cup {oc}) <= MaxOptions
          /\ optSet' = OptionsInsert(optSet, oc, v)
    /\ UNCHANGED <<serverVars, encMsg, wire, decoded, rangeOrder, optData,
                   optDecoded, accessed>>

\* o.MarshalBytes(), range yielding the keys in some order
MarshalOptions ==
    /\ optData = <<>> /\ rangeOrder = <<>> /\ ~optDecoded.called
    /\ \E ks \in RangeOrders(optSet) :
          /\ rangeOrder' = ks
          /\ optData' = OptionsMarshalBytesFrom(optSet, ks)
    /\ UNCHANGED <<serverVars, encMsg, wire, decoded, optSet, optDecoded,
                   accessed>>

\* ParseOptions(optData)
DecodeOptions ==
    /\ ~optDecoded.called
    /\ LET r == ParseOptions(optData)
       IN  optDecoded' = [called |-> TRUE, opts |-> r.opts, err |-> r.err]
    /\ UNCHANGED <<serverVars, encMsg, wire, decoded, optSet, rangeOrder,
                   optData, accessed>>

OptionsNext == Insert \/ MarshalOptions \/ DecodeOptions

OptionsSpec == OptionsInit /\ [][OptionsNext]_vars

(***************************************************************************)
(* The receive loop alone, with the read errors and the cancellation that  *)
(* come from outside the server                                            *)
(***************************************************************************)
\* ReadFrom fails with an error that is no timeout, as the network or the
\* socket can make it: the loop panics
LoopReadFault ==
    /\ Running
    /\ loop.pc = "read"
    /\ crash' = "can't read"
    /\ UNCHANGED <<socket, nsock, closedSocks, inbox, listening, cancelled,
                   msgCb, rwW, rwLocked, rwReaders, loop, hm, reg, api, nsent>>
    /\ UNCHANGED codecVars

\* the owner of the context handed to NewServer cancels it: l.ctx, derived
\* from it, is done
CancelParent ==
    /\ Running
    /\ ~cancelled
    /\ cancelled' = TRUE
    /\ UNCHANGED <<socket, nsock, closedSocks, inbox, listening, msgCb, rwW,
                   rwLocked, rwReaders, loop, hm, reg, api, nsent, crash>>
    /\ UNCHANGED codecVars

LoopNext ==
    \/ Start \/ Stop \/ Arrive \/ CancelParent
    \/ GoLoop \/ LoopSelect \/ LoopRecv \/ LoopReadErr \/ LoopReadFault
    \/ LoopHandled \/ HmParse

LoopSpec == Init /\ [][LoopNext]_vars

(***************************************************************************)
(* Stop against a running receive loop                                     *)
(***************************************************************************)
\* a step of the goroutine running l.loop(), the handleMsg it calls included
LoopStep ==
    LoopSelect \/ LoopRecv \/ LoopReadErr \/ LoopHandled \/ HmParseAt(0)

StopNext ==
    \/ Start \/ Stop \/ Arrive
    \/ GoLoop \/ LoopSelect \/ LoopRecv \/ LoopReadErr \/ LoopHandled \/ HmParse

\* The loop's goroutine keeps running: its reads return within the deadline
\* it sets, so it always has a next step to take.
StopSpec == Init /\ [][StopNext]_vars /\ WF_vars(LoopStep)

(***************************************************************************)
(* The typed accessors of Options, on sets built by Insert                 *)
(***************************************************************************)
OptionSubnetMask == 1
OptionRequestedIPAddress == 50
OptionParameterRequestList == 55
OptionRenewalTime == 58
OptionRebindingTime == 59
OptionClientID == 61
ErrOptionNotPresent == "option not present"
ErrShortRead == "short read"

\* A 64-bit integer is held as its two 32-bit halves, each as Uint32 holds
\* it: the code converts and compares these values and does no arithmetic.
\* a Uint64 that would join the halves in the opposite order
Uint64HalvesSwapped(b) ==
    [hi |-> Uint32(SubSeq(b, 5, 8)), lo |-> Uint32(SubSeq(b, 1, 4))]
\* binary.BigEndian.Uint64 of the first 8 bytes of b
Uint64(b) == [hi |-> Uint32(SubSeq(b, 1, 4)), lo |-> Uint32(SubSeq(b, 5, 8))]
PutUint64(x) == PutUint32(x.hi) \o PutUint32(x.lo)

\* The values handed to Insert: a slice of bytes or of byte-kinded elements
\* ([]byte, net.IP, net.IPMask, []OptionCode), one byte (MessageType), a
\* time.Duration, and an int, for which binary.Write has no fixed size.
ByteSlice(b) == [kind |-> "bytes", b |-> b]
OneByte(n) == [kind |-> "byte", n |-> n]
Duration(hi, lo) == [kind |-> "duration", d |-> [hi |-> hi, lo |-> lo]]
AnInt == [kind |-> "int"]

\* binary.Write(&b, binary.BigEndian, v): the bytes written and the error
BinaryWrite(v) ==
    CASE v.kind = "bytes" -> [bytes |-> v.b, err |-> ""]
      [] v.kind = "byte" -> [bytes |-> <<v.n>>, err |-> ""]
      [] v.kind = "duration" -> [bytes |-> PutUint64(v.d), err |-> ""]
      [] OTHER -> [bytes |-> <<>>, err |-> "invalid type"]

\* o.Insert(oc, v) for a value of any of these types: o afterwards
OptionsInsertValue(opts, oc, v) ==
    IF BinaryWrite(v).err # "" THEN opts
    ELSE OptionsInsert(opts, oc, BinaryWrite(v).bytes)

\* The accessors: the value and the error each returns. "fault" stands for
\* the panic of an index out of range.
SubnetMask(o) ==
    IF OptionSubnetMask \notin DOMAIN o
    THEN [val |-> <<>>, err |-> ErrOptionNotPresent]
    ELSE [val |-> o[OptionSubnetMask], err |-> ""]
RequestedIPAddress(o) ==
    IF OptionRequestedIPAddress \notin DOMAIN o
    THEN [val |-> <<>>, err |-> ErrOptionNotPresent]
    ELSE [val |-> o[OptionRequestedIPAddress], err |-> ""]
DHCPMessageType(o) ==
    IF OptionDHCPMessageType \notin DOMAIN o
    THEN [val |-> 0, err |-> ErrOptionNotPresent]
    ELSE IF Len(o[OptionDHCPMessageType]) < 1
    THEN [val |-> 0, err |-> ErrShortRead]
    ELSE [val |-> o[OptionDHCPMessageType][1], err |-> ""]
ParameterRequestList(o) ==
    IF OptionParameterRequestList \notin DOMAIN o
    THEN [val |-> <<>>, err |-> ErrOptionNotPresent]
    ELSE [val |-> o[OptionParameterRequestList], err |-> ""]
\* RenewalTime and RebindingTime, which differ in the code they read
LeaseTime(o, code) ==
    IF code \notin DOMAIN o
    THEN [val |-> [hi |-> 0, lo |-> 0], err |-> ErrOptionNotPresent]
    ELSE IF Len(o[code]) < 8
    THEN [val |-> [hi |-> 0, lo |-> 0], err |-> "fault"]
    ELSE [val |-> Uint64(o[code]), err |-> ""]
RenewalTime(o) == LeaseTime(o, OptionRenewalTime)
RebindingTime(o) == LeaseTime(o, OptionRebindingTime)
ClientID(o) ==
    IF OptionClientID \notin DOMAIN o
    THEN [val |-> [kind |-> 0, id |-> <<>>], err |-> ErrOptionNotPresent]
    ELSE IF Len(o[OptionClientID]) < 2
    THEN [val |-> [kind |-> 0, id |-> <<>>], err |-> ErrShortRead]
    ELSE [val |-> [kind |-> o[OptionClientID][1], id |-> Tail(o[OptionClientID])],
          err |-> ""]

AccessorNames ==
    {"SubnetMask", "RequestedIPAddress", "DHCPMessageType",
     "ParameterRequestList", "RenewalTime", "RebindingTime", "ClientID"}
\* the code an accessor reads
AccessorCode(a) ==
    CASE a = "SubnetMask" -> OptionSubnetMask
      [] a = "RequestedIPAddress" -> OptionRequestedIPAddress
      [] a = "DHCPMessageType" -> OptionDHCPMessageType
      [] a = "ParameterRequestList" -> OptionParameterRequestList
      [] a = "RenewalTime" -> OptionRenewalTime
      [] a = "RebindingTime" -> OptionRebindingTime
      [] a = "ClientID" -> OptionClientID
\* what the accessor a returns on the set o
Access(a, o) ==
    CASE a = "SubnetMask" -> SubnetMask(o)
      [] a = "RequestedIPAddress" -> RequestedIPAddress(o)
      [] a = "DHCPMessageType" -> DHCPMessageType(o)
      [] a = "ParameterRequestList" -> ParameterRequestList(o)
      [] a = "RenewalTime" -> RenewalTime(o)
      [] a = "RebindingTime" -> RebindingTime(o)
      [] a = "ClientID" -> ClientID(o)

\* the most codes a set built for the accessors holds
MaxAccessorOptions == 2

\* The values of the tests: the mask 255.255.252.0, the address 192.168.1.1
\* in its 16-byte and its 4-byte form, the message type 1 as a byte and as a
\* slice, the parameter list 1 2 3, one hour, and the client identifier of
\* type 1. With them a negative duration, the values cut short of each
\* accessor's shape (0, 1, 3 and 7 bytes), and an int.
Hour == Duration(838, 817471488)
TestClientID == <<1, 15, 206, 15, 206, 15, 206>>
InsertValues ==
    {ByteSlice(<<255, 255, 252, 0>>), ByteSlice(IPv4(192, 168, 1, 1)),
     ByteSlice(<<192, 168, 1, 1>>), OneByte(1), ByteSlice(<<1>>), ByteSlice(<<1, 2, 3>>),
     Hour, Duration(-1, -1), ByteSlice(TestClientID), ByteSlice(<<1, 15>>),
     ByteSlice(<<>>), ByteSlice(<<255, 255, 252>>), AnInt}

AccessorInit ==
    /\ ServerInit(SockIds)
    /\ encMsg = NewMsg /\ wire = <<>> /\ decoded = NotCalled
    /\ optSet = EmptyOptions /\ rangeOrder = <<>> /\ optData = <<>>
    /\ optDecoded = NotCalled /\ accessed = NotCalled

\* o.Insert(oc, v) under the code of one of the accessors
InsertValue ==
    /\ ~accessed.called
    /\ \E a \in AccessorNames, v \in InsertValues :
          /\ Cardinality((DOMAIN optSet) \cup {AccessorCode(a)})
                <= MaxAccessorOptions
          /\ optSet' = OptionsInsertValue(optSet, AccessorCode(a), v)
    /\ UNCHANGED <<serverVars, encMsg, wire, decoded, rangeOrder, optData,
                   optDecoded, accessed>>

\* one of the accessors is called on the set
CallAccessor ==
    /\ ~accessed.called
    /\ \E a \in AccessorNames :
          accessed' = [called |-> TRUE, name |-> a,
                       val |-> Access(a, optSet).val,
                       err |-> Access(a, optSet).err]
    /\ UNCHANGED <<serverVars, encMsg, wire, decoded, optSet, rangeOrder,
                   optData, optDecoded>>

AccessorNext == InsertValue \/ CallAccessor

AccessorSpec == AccessorInit /\ [][AccessorNext]_vars

(***************************************************************************)
(* Properties                                                              *)
(***************************************************************************)
\* the datagram handleMsg call d was started for decodes successfully
Decodes(d) == ParseMsg(Bytes(hm[d].dg)).err = ""
\* the external calls of RegisterCallback
ExternalRegs == 1..MaxRegs
\* the handleMsg calls inside the callback, between RLock and RUnlock
ReadersIn == {d \in Dispatches : hm[d].pc = "incb"}
\* the RegisterCallback calls between Lock and Unlock
WritersIn == {r \in Regs : reg[r].pc = "locked"}
\* a callback that calls RegisterCallback is running: it never returns
SelfRegistering == \E d \in Dispatches : hm[d].pc = "incb" /\ hm[d].cb = "hReg"

\* C1: on a Started server with a handler registered, every datagram the
\* loop has read and finished handling, and that decodes successfully as it
\* was sent, has had the handler invoked exactly once, with a message equal
\* field for field to the one the sender encoded, and when the handler
\* answered nil nothing was written.
C1_HandlerInvokedOnce ==
    (api.started /\ msgCb # "nil" /\ loop.pc = "handle" /\ hm[0].pc = "ret"
        /\ Decodes(0))
    => /\ hm[0].ncb = 1
       /\ MsgEqual(hm[0].seen[1], SentMsg(hm[0].dg))
       /\ (hm[0].res = <<>> => hm[0].nwr = 0)

\* C2: once Start has returned nil having bound the socket, and until Stop
\* is called, Listening() is true and the receive loop is running.
C2_StartListens ==
    (api.started /\ api.nstop = 0) => (Listening /\ loop.pc # "none")

\* C3: once Stop has returned on a server that was started, the context is
\* cancelled, the socket is closed and Listening() is false.
C3_StopStops ==
    api.stopped => (cancelled /\ socket \in closedSocks /\ ~Listening)

\* C4: after Stop has returned on a server that was started, the loop starts
\* no socket read.
C4_NoReadAfterStop ==
    [][api.stopped => ~(loop.pc = "select" /\ loop'.pc = "read")]_vars

\* C5: a datagram that fails to decode is dropped: no callback, no write,
\* and the process does not panic in decoding it.
C5_DecodeFailureDropped ==
    /\ crash # "slice bounds out of range"
    /\ \A d \in Dispatches :
          (hm[d].pc # "idle" /\ ParseMsg(Data(d)).msg = <<>>)
          => (hm[d].ncb = 0 /\ hm[d].nwr = 0)

\* C6: while the datagram the loop has read is being handled, the loop is
\* free to issue its next read.
C6_HandlingDoesNotBlockReading ==
    hm[0].pc # "idle" => loop.pc \in {"select", "read"}

C8_WriterExcludesAll ==
    /\ Cardinality(WritersIn) <= 1
    /\ WritersIn # {} => ReadersIn = {}

\* C8 witness: two dispatches hold the lock as readers at the same time.
C8_Witness == Cardinality(ReadersIn) >= 2

\* C9: a handleMsg call that has returned after its callback has written
\* exactly one datagram, the encoding of the response, to the address the
\* request came from, when the callback returned a response and no error,
\* and none otherwise; no call ever writes more than that.
C9_ResponseExactlyWhen ==
    \A d \in Dispatches :
        /\ hm[d].nwr <= 1
        /\ hm[d].nwr = 1 =>
              /\ hm[d].ncb = 1
              /\ CbResult(hm[d].cb, hm[d].seen[1]).err = ""
              /\ CbResult(hm[d].cb, hm[d].seen[1]).res # <<>>
              /\ hm[d].wpay = MsgMarshalBytes(CbResult(hm[d].cb, hm[d].seen[1]).res[1])
              /\ hm[d].wto = Sender(hm[d].dg)
        /\ (hm[d].pc = "ret" /\ hm[d].ncb = 1 /\ hm[d].nwr = 0) =>
              \/ CbResult(hm[d].cb, hm[d].seen[1]).err # ""
              \/ CbResult(hm[d].cb, hm[d].seen[1]).res = <<>>

\* C9 witnesses: a call whose callback returned a response has written it,
\* and a call whose callback returned a response with an error has returned.
C9_Witness ==
    /\ \E d \in Dispatches :
          hm[d].pc = "ret" /\ hm[d].cb = "hResp" /\ hm[d].nwr = 1
             /\ hm[d].wto = "client2"
    /\ \E d \in Dispatches :
          hm[d].pc = "ret" /\ hm[d].cb = "hBoth" /\ hm[d].nwr = 0

\* C10: with no handler registered, a datagram that decodes produces no
\* response and no panic.
C10_NoHandlerNoCrash ==
    /\ crash # "nil callback"
    /\ \A d \in Dispatches : hm[d].ncb = 0 => hm[d].nwr = 0

\* C11: a call of Start on a server that an earlier Start has bound, and that
\* Stop has not been called on, opens no socket and keeps the existing socket
\* and loop.
C11_RestartChangesNothing ==
    [][(api.started /\ api.nstop = 0 /\ api'.nstart = api.nstart + 1)
          => (nsock' = nsock /\ socket' = socket /\ loop' = loop)]_vars

\* the buffer is what MarshalBytes returned for encMsg, unaltered
IsEncoding == wire # <<>> /\ wire = MsgMarshalBytes(encMsg)

\* C12: ParseMsg returns for every buffer and never panics: below 236 bytes
\* it returns the short-read error, and for 236 to 239 bytes with hlen 6 it
\* returns a message with no options or an error.
C12_ParseMsgNeverFaults ==
    decoded.called =>
        /\ decoded.err # "fault"
        /\ Len(wire) < 236 => decoded.err = "short read"
        /\ (Len(wire) \in 236..239 /\ wire[3] = 6) =>
              \/ decoded.err # ""
              \/ decoded.msg # <<>> /\ DOMAIN decoded.msg[1].Options = {}

\* C13: on a buffer of at least 240 bytes ParseMsg returns the unsupported
\* hlen error when byte 2 is not 6, else the cookie error when bytes 236..239
\* are not 63 82 53 63 (hex), else a message and no error.
C13_HlenThenCookie ==
    (decoded.called /\ Len(wire) >= 240) =>
        IF wire[3] # 6 THEN decoded.err = "unsupported hlen"
        ELSE IF <<wire[237], wire[238], wire[239], wire[240]>> # <<99, 130, 83, 99>>
        THEN decoded.err = "incorrect cookie"
        ELSE decoded.err = "" /\ decoded.msg # <<>>

\* C13 witness: a buffer with hlen 6 and a wrong cookie has been rejected
\* for its cookie.
C13_Witness ==
    /\ decoded.called /\ Len(wire) >= 240 /\ wire[3] = 6
    /\ decoded.err = "incorrect cookie"

\* the messages C14 calls well-formed
WellFormed(m) ==
    /\ m.Hlen = 6
    /\ \A a \in {m.Ciaddr, m.Yiaddr, m.Siaddr, m.Giaddr} : To4(a) # <<>>
    /\ Len(m.Chaddr) = 6
    /\ Len(m.Sname) <= 64 /\ (m.Sname # <<>> => m.Sname[Len(m.Sname)] # 0)
    /\ Len(m.File) <= 128 /\ (m.File # <<>> => m.File[Len(m.File)] # 0)
    /\ \A c \in DOMAIN m.Options : Len(m.Options[c]) <= 255

\* ParseMsg of the buffer returned a message equal to the one encoded
RoundTrips ==
    /\ decoded.err = "" /\ decoded.msg # <<>>
    /\ MsgEqual(decoded.msg[1], encMsg)

\* C14 as claimed: ParseMsg(m.MarshalBytes()) returns a message equal to m
\* for every well-formed m.
C14_RoundTrip ==
    (decoded.called /\ IsEncoding /\ WellFormed(encMsg)) => RoundTrips

\* C14 apart from the option sets of C21: the same for every well-formed m
\* none of whose options has the code of the pad (0) or of the end marker (255).
C14_RoundTripOfCodedOptions ==
    (decoded.called /\ IsEncoding /\ WellFormed(encMsg)
        /\ DOMAIN encMsg.Options \cap {0, 255} = {})
    => RoundTrips

\* C14 witness: a well-formed message with two options and a server name
\* has been encoded and decoded back.
C14_Witness ==
    /\ decoded.called /\ IsEncoding /\ WellFormed(encMsg)
    /\ DOMAIN encMsg.Options = {50, 53} /\ encMsg.Sname = <<97>>
    /\ RoundTrips

\* C15: the encoding of every message is at least 272 bytes long, and when
\* the assembled content is shorter it is exactly 272 bytes: the content
\* followed by zeros.
C15_PaddedTo272 ==
    IsEncoding =>
        /\ Len(wire) >= 272
        /\ Len(MsgBuffer(encMsg)) < 272 =>
              /\ Len(wire) = 272
              /\ SubSeq(wire, 1, Len(MsgBuffer(encMsg))) = MsgBuffer(encMsg)
              /\ \A i \in (Len(MsgBuffer(encMsg)) + 1)..272 : wire[i] = 0

\* C15 witness: a message whose content is shorter than 272 bytes has been
\* encoded.
C15_Witness == IsEncoding /\ Len(MsgBuffer(encMsg)) < 272 /\ Len(wire) = 272

\* C16: in the encoding of every message each field is at the offset ParseMsg
\* reads it from, whatever the lengths of the hardware address and strings.
C16_FieldsAtOffsets ==
    IsEncoding =>
        /\ wire[1] = encMsg.Op /\ wire[2] = encMsg.Htype
        /\ wire[3] = encMsg.Hlen /\ wire[4] = encMsg.Hops
        /\ Slice(wire, 4, 8) = PutUint32(encMsg.Xid)
        /\ Slice(wire, 8, 10) = PutUint16(encMsg.Secs)
        /\ Slice(wire, 10, 12) = PutUint16(encMsg.Flags)
        /\ To4(encMsg.Ciaddr) # <<>> => Slice(wire, 12, 16) = To4(encMsg.Ciaddr)
        /\ To4(encMsg.Yiaddr) # <<>> => Slice(wire, 16, 20) = To4(encMsg.Yiaddr)
        /\ To4(encMsg.Siaddr) # <<>> => Slice(wire, 20, 24) = To4(encMsg.Siaddr)
        /\ To4(encMsg.Giaddr) # <<>> => Slice(wire, 24, 28) = To4(encMsg.Giaddr)
        /\ LET n == Min(Len(encMsg.Chaddr), 16)
           IN  Slice(wire, 28, 28 + n) = SubSeq(encMsg.Chaddr, 1, n)
        /\ LET n == Min(Len(encMsg.Sname), 64)
           IN  Slice(wire, 44, 44 + n) = SubSeq(encMsg.Sname, 1, n)
        /\ LET n == Min(Len(encMsg.File), 128)
           IN  Slice(wire, 108, 108 + n) = SubSeq(encMsg.File, 1, n)
        /\ Slice(wire, 236, 240) = <<99, 130, 83, 99>>
        /\ LET o == OptionsMarshalBytes(encMsg.Options)
           IN  Slice(wire, 240, 240 + Len(o)) = o

\* the buffer being decoded is the encoding of the option set built
IsOptionsEncoding == optData = OptionsMarshalBytes(optSet)
\* every value of the option set fits the one-byte length
ValuesFit == \A c \in DOMAIN optSet : Len(optSet[c]) <= 255
\* ParseOptions returned optSet and no error
OptionsRoundTrip == optDecoded.err = "" /\ optDecoded.opts = optSet

\* C17: for every option set s whose values are at most 255 bytes long,
\* ParseOptions(s.MarshalBytes()) returns a nil error and a set equal to s.
C17_OptionsRoundTrip ==
    (optDecoded.called /\ IsOptionsEncoding /\ ValuesFit) => OptionsRoundTrip

\* C17 apart from the option sets of C21: the same for the sets that hold
\* neither code 0 nor code 255, which MarshalBytes writes as items and
\* ParseOptions reads as pad and end marker.
C17_RoundTripOfCodedSet ==
    (/\ optDecoded.called /\ IsOptionsEncoding /\ ValuesFit
     /\ OptionPad \notin DOMAIN optSet /\ OptionEnd \notin DOMAIN optSet)
    => OptionsRoundTrip

\* a set of two codes, one value holding the end marker's byte, decoded from
\* its encoding
C17_Witness ==
    /\ optDecoded.called /\ IsOptionsEncoding /\ ValuesFit
    /\ DOMAIN optSet = {50, OptionDHCPMessageType}
    /\ optSet[50] = <<2, OptionEnd>>
    /\ rangeOrder = <<OptionDHCPMessageType, 50>>

\* the codes of ks, each smaller than the next
Ascending(ks) == \A i, j \in DOMAIN ks : i < j => ks[i] < ks[j]

\* C18: Options.MarshalBytes emits the codes in ascending order and its
\* output depends only on the code-to-value mapping: whatever order the keys
\* of the set came in, the bytes are the items in ascending order of code
\* followed by the end marker, and so the same for every such order.
C18_AscendingAndDeterministic ==
    rangeOrder # <<>> =>
        /\ \E q \in RangeOrders(optSet) :
              Ascending(q) /\ optData = WriteTLVs(optSet, q) \o <<OptionEnd>>
        /\ \A ks \in RangeOrders(optSet) :
              OptionsMarshalBytesFrom(optSet, ks) = optData

\* a set of three codes encoded with the keys ranged over in descending order
C18_Witness ==
    /\ Len(rangeOrder) = MaxOptions
    /\ \A i, j \in DOMAIN rangeOrder : i < j => rangeOrder[i] > rangeOrder[j]
    /\ optData = OptionsMarshalBytesFrom(optSet, rangeOrder)
    /\ \E c \in DOMAIN optSet : optSet[c] # <<>>

\* The item positions of a buffer from position p on: where a code byte is
\* read. A pad is followed by the next item, any other code by its length
\* byte and as many value bytes; nothing follows the end marker.
RECURSIVE ItemPositions(_, _)
ItemPositions(data, p) ==
    IF p > Len(data) THEN {}
    ELSE IF data[p] = OptionEnd THEN {p}
    ELSE IF data[p] = OptionPad THEN {p} \cup ItemPositions(data, p + 1)
    ELSE IF p = Len(data) THEN {p}
    ELSE {p} \cup ItemPositions(data, p + 2 + data[p + 1])
\* the item positions that hold an item with a value: a code other than pad
\* and end marker, followed at least by its length byte
ValuedItems(data) ==
    {p \in ItemPositions(data, 1) :
        data[p] \notin {OptionPad, OptionEnd} /\ p < Len(data)}
\* the value of the item at p: the bytes its length byte announces, as far
\* as the buffer holds them
ItemValue(data, p) ==
    [k \in 1..(IF p + 1 + data[p + 1] <= Len(data) THEN data[p + 1]
               ELSE Len(data) - (p + 1)) |-> data[p + 1 + k]]
\* the last item of data with the code c
LastItem(data, c) ==
    CHOOSE p \in ValuedItems(data) :
        data[p] = c /\ \A q \in ValuedItems(data) : data[q] = c => q <= p
\* the map from each code of an item to the value of its last item
LastOccurrences(data) ==
    [c \in {data[p] : p \in ValuedItems(data)} |->
        ItemValue(data, LastItem(data, c))]

\* C19: for every byte buffer, ParseOptions returns exactly the map that
\* sends each code found in item position before the first end marker to the
\* value of its last such occurrence; pads are skipped and not stored, and
\* nothing after the first end marker is scanned or stored. (An item is a
\* code with at least its length byte.)
C19_LastOccurrenceBeforeEnd ==
    optDecoded.called => optDecoded.opts = LastOccurrences(optData)

\* a pad, the same code twice with different values, the end marker, and a
\* further code after it
C19_Witness ==
    /\ optDecoded.called
    /\ Len(optData) = MaxOptLen
    /\ optData[1] = OptionPad
    /\ \E p, q \in ValuedItems(optData) :
          /\ p < q /\ optData[p] = optData[q]
          /\ ItemValue(optData, p) # ItemValue(optData, q)
          /\ optData[q] \in DOMAIN optDecoded.opts
    /\ \E p \in ItemPositions(optData, 1) :
          /\ optData[p] = OptionEnd /\ p < Len(optData)
          /\ optData[p + 1] \notin {OptionPad, OptionEnd}
          /\ optData[p + 1] \notin DOMAIN optDecoded.opts

\* the items of data whose length byte announces more bytes than remain
Overruns(data) == {p \in ValuedItems(data) : p + 1 + data[p + 1] > Len(data)}
\* the scan of data meets no end marker
NoEndMarker(data) == \A p \in ItemPositions(data, 1) : data[p] # OptionEnd

\* C20: ParseOptions never returns an error for a length overrun or a
\* missing end marker: it returns a nil error for every buffer, an item whose
\* length byte is larger than the bytes remaining is stored with the bytes
\* that remain, and a buffer that ends without an end marker, also right
\* after a code byte, yields the options of the items before its end.
C20_LenientRead ==
    optDecoded.called =>
        /\ optDecoded.err = ""
        /\ \A p \in Overruns(optData) :
              /\ optData[p] \in DOMAIN optDecoded.opts
              /\ optDecoded.opts[optData[p]]
                    = SubSeq(optData, p + 2, Len(optData))
        /\ NoEndMarker(optData) =>
              DOMAIN optDecoded.opts = {optData[p] : p \in ValuedItems(optData)}

\* a buffer with no end marker whose last item announces more bytes than
\* the one that remains, after an item that is complete
C20_Witness ==
    /\ optDecoded.called
    /\ NoEndMarker(optData)
    /\ \E p \in Overruns(optData) :
          /\ p + 2 = Len(optData)
          /\ optDecoded.opts[optData[p]] = <<optData[Len(optData)]>>
          /\ \E q \in ValuedItems(optData) : q < p /\ optData[q] # optData[p]

\* C21: after any sequence of ParseOptions and Insert calls, an option set
\* never contains key 0 (pad) or key 255 (end): neither the set built by
\* Insert nor the set ParseOptions returned.
C21_NoControlKeys ==
    /\ OptionPad \notin DOMAIN optSet /\ OptionEnd \notin DOMAIN optSet
    /\ optDecoded.called =>
          /\ OptionPad \notin DOMAIN optDecoded.opts
          /\ OptionEnd \notin DOMAIN optDecoded.opts

\* the shortest value the accessor a can decode
Shape(a) ==
    CASE a \in {"SubnetMask", "RequestedIPAddress"} -> 4
      [] a = "DHCPMessageType" -> 1
      [] a = "ParameterRequestList" -> 0
      [] a \in {"RenewalTime", "RebindingTime"} -> 8
      [] a = "ClientID" -> 2

\* C22: every typed accessor returns the not-present error when its code is
\* absent from the set, and the short-read error, not a fault and not a
\* malformed value, when the stored value is shorter than its shape.
C22_NotPresentOrShortRead ==
    accessed.called =>
        LET code == AccessorCode(accessed.name)
        IN  /\ code \notin DOMAIN optSet => accessed.err = ErrOptionNotPresent
            /\ (code \in DOMAIN optSet
                 /\ Len(optSet[code]) < Shape(accessed.name))
               => accessed.err = ErrShortRead

\* The values of the type each accessor returns, as handed to Insert (ins)
\* and as the accessor is to return them (out). A client identifier is a
\* type byte with at least one id byte.
Typed(a) ==
    CASE a = "SubnetMask" ->
           {[ins |-> ByteSlice(m), out |-> m] : m \in {<<255, 255, 252, 0>>}}
      [] a = "RequestedIPAddress" ->
           {[ins |-> ByteSlice(ip), out |-> ip] :
              ip \in {IPv4(192, 168, 1, 1), <<192, 168, 1, 1>>}}
      [] a = "DHCPMessageType" ->
           {[ins |-> OneByte(1), out |-> 1], [ins |-> ByteSlice(<<1>>), out |-> 1]}
      [] a = "ParameterRequestList" ->
           {[ins |-> ByteSlice(l), out |-> l] : l \in {<<1, 2, 3>>, <<>>}}
      [] a \in {"RenewalTime", "RebindingTime"} ->
           {[ins |-> d, out |-> d.d] : d \in {Hour, Duration(-1, -1)}}
      [] a = "ClientID" ->
           {[ins |-> ByteSlice(c), out |-> [kind |-> Head(c), id |-> Tail(c)]] :
              c \in {TestClientID, <<1, 15>>}}

\* C23: for every typed accessor, a value stored with Insert under the
\* accessor's code is returned unchanged and without error by that accessor.
C23_InsertedValueReturned ==
    accessed.called =>
        \A t \in Typed(accessed.name) :
            (/\ AccessorCode(accessed.name) \in DOMAIN optSet
             /\ optSet[AccessorCode(accessed.name)] = BinaryWrite(t.ins).bytes)
            => accessed.err = "" /\ accessed.val = t.out

\* one hour stored as renewal time next to a client identifier, and read back
C23_Witness ==
    /\ accessed.called /\ accessed.name = "RenewalTime"
    /\ DOMAIN optSet = {OptionRenewalTime, OptionClientID}
    /\ optSet[OptionRenewalTime] = BinaryWrite(Hour).bytes
    /\ accessed.err = "" /\ accessed.val = Hour.d

\* C24: in the receive loop, a read that fails with a deadline-exceeded
\* error dispatches nothing and the loop proceeds to its next cancellation
\* check; a read that fails with any other error ends the loop, and after it
\* no further read or dispatch happens.
C24_TimeoutGoesOnFaultEnds ==
    [][/\ (loop.pc = "read" /\ loop'.pc # "read")
          => \/ loop'.pc = "handle" /\ Len(inbox'[loop.sock]) < Len(inbox[loop.sock])
             \/ loop'.pc = "select" /\ hm' = hm /\ inbox' = inbox /\ crash' = crash
       /\ (loop.pc = "read" /\ crash = "" /\ crash' # "")
          => crash' = "can't read" /\ hm' = hm /\ loop' = loop
       /\ crash = "can't read" => loop' = loop /\ hm' = hm /\ inbox' = inbox
      ]_vars

\* the loop has read and handled one datagram and then panicked on a failed
\* read, with the second datagram still waiting in the socket
C24_Witness ==
    /\ crash = "can't read"
    /\ loop.pc = "read"
    /\ nsent = MaxDatagrams
    /\ Len(inbox[loop.sock]) = 1
    /\ hm[0].pc = "idle"

\* C25: in no interleaving of Stop with the receive loop does the loop take
\* the fatal read-error branch, and a Stop on a started server whose loop is
\* running ends that loop, through its cancellation check.
C25_StopEndsLoopByCancel ==
    /\ [](crash # "can't read")
    /\ (api.stopped /\ loop.pc \in {"select", "read", "handle"})
          ~> (loop.pc = "exited")

\* C26: the bytes a dispatch decodes, and the message its handler receives,
\* are those of the datagram that triggered the dispatch.
C26_DispatchSeesItsDatagram ==
    \A d \in Dispatches :
        hm[d].pc # "idle" =>
            /\ Data(d) = Bytes(hm[d].dg)
            /\ hm[d].ncb > 0 => hm[d].seen = ParseMsg(Bytes(hm[d].dg)).msg

\* C27: Stop does not wait for handler invocations, and a dispatch that
\* finishes after Stop has returned on a started server does not crash and,
\* if it sends its response, gets a write error, which it reports.
C27_LateResponseFailsQuietly ==
    [][\A d \in Dispatches :
          (api.stopped /\ hm[d].pc = "post" /\ hm'[d] # hm[d])
          => /\ crash' = ""
             /\ hm'[d].nwr > hm[d].nwr => hm'[d].ret = "write response"]_vars


====
